---- MODULE Spec2Model ----
(***************************************************************************)
(* A model of fetch_baugesuche_mehrfamilienhaus_ZH.py: the paginated       *)
(* listing, the pooled detail fetch, the MFH classifier, the Bauherrschaft *)
(* extractors and the retrying HTTP session.                               *)
(*                                                                         *)
(* Text is a sequence of one-character strings, so that strip, split,      *)
(* join, the regular-expression search and string comparison are computed  *)
(* and not assumed.  An XML element is a record [tag, text, tail, kids];   *)
(* a tag is the element's local name (every path of the program matches    *)
(* any namespace).  An optional value (None) is the empty sequence.        *)
(***************************************************************************)
EXTENDS Integers, Sequences, FiniteSets, TLC

\* ------------------------------------------------------------------ bounds

\* The listing page size.  The program runs with 2000 (line 27); the model
\* runs the same loop with a small page.
PAGE_SIZE == 2
\* The most publications the remote listing holds.
MaxPubs == 3
\* The most <person> elements of a generated <buildingContractor> block.
MaxPersons == 2
\* The most descriptors submitted to the pool in the pool model.
MaxDescriptors == 18

\* ------------------------------------------------------- program constants

MAX_WORKERS == 16
RETRY_TOTAL == 5
status_forcelist == {429, 500, 502, 503, 504}

\* -------------------------------------------------------------------- text

WhiteSpace == {" ", "\n"}
NonWordChars == WhiteSpace \cup {"(", ")", ",", "|", "-", "."}

\* The characters of the model in code-point order (str comparison).
CodePoints == <<"\n", " ", "(", ")", ",", "-", ".", "0", "1", "2", "3",
                "A", "B", "C", "F", "G", "H", "M", "N", "U", "W", "Z",
                "a", "b", "e", "f", "h", "m", "n", "o", "r", "u", "w", "|">>

Ord(c) == CHOOSE i \in DOMAIN CodePoints : CodePoints[i] = c

RECURSIVE Flatten(_)
Flatten(ss) == IF ss = <<>> THEN <<>> ELSE Head(ss) \o Flatten(Tail(ss))

RECURSIVE lstrip(_)
lstrip(s) == IF s # <<>> /\ Head(s) \in WhiteSpace THEN lstrip(Tail(s)) ELSE s

RECURSIVE rstrip(_)
rstrip(s) ==
    IF s # <<>> /\ s[Len(s)] \in WhiteSpace
    THEN rstrip(SubSeq(s, 1, Len(s) - 1))
    ELSE s

strip(s) == rstrip(lstrip(s))

\* str.split(): the maximal runs of non-whitespace characters.
RECURSIVE split(_)
split(s) ==
    LET t == lstrip(s)
    IN  IF t = <<>> THEN <<>>
        ELSE LET ws == {i \in DOMAIN t : t[i] \in WhiteSpace}
                 n  == IF ws = {} THEN Len(t) + 1
                       ELSE CHOOSE i \in ws : \A j \in ws : i <= j
             IN  <<SubSeq(t, 1, n - 1)>> \o split(SubSeq(t, n, Len(t)))

\* sep.join(parts)
RECURSIVE join(_, _)
join(sep, parts) ==
    IF parts = <<>> THEN <<>>
    ELSE IF Len(parts) = 1 THEN parts[1]
    ELSE parts[1] \o sep \o join(sep, Tail(parts))

\* " ".join(txt.split())
normalize_ws(txt) == join(<<" ">>, split(txt))

\* filter(None, parts): the non-empty strings of parts.
NonEmpty(parts) == SelectSeq(parts, LAMBDA p : p # <<>>)

\* s.replace("\n", ", ")
RECURSIVE replace_newlines(_)
replace_newlines(s) ==
    IF s = <<>> THEN <<>>
    ELSE (IF Head(s) = "\n" THEN <<",", " ">> ELSE <<Head(s)>>)
         \o replace_newlines(Tail(s))

\* a < b for str: lexicographic by code point, a proper prefix is smaller.
RECURSIVE StrLess(_, _)
StrLess(a, b) ==
    IF b = <<>> THEN FALSE
    ELSE IF a = <<>> THEN TRUE
    ELSE IF Head(a) # Head(b) THEN Ord(Head(a)) < Ord(Head(b))
    ELSE StrLess(Tail(a), Tail(b))

\* ---------------------------------------------------------- element trees

El(tag, text, kids) == [tag |-> tag, text |-> text, tail |-> <<>>, kids |-> kids]
Leaf(tag, text) == El(tag, text, <<>>)
WithTail(elem, tail) == [elem EXCEPT !.tail = tail]

\* Element.iter(): the element and its descendants in document order.
RECURSIVE iter(_)
iter(elem) ==
    <<elem>> \o Flatten([i \in DOMAIN elem.kids |-> iter(elem.kids[i])])

ChildrenTagged(elem, tag) == SelectSeq(elem.kids, LAMBDA k : k.tag = tag)

RECURSIVE StepPath(_, _)
StepPath(nodes, tags) ==
    IF tags = <<>> THEN nodes
    ELSE StepPath(
            Flatten([i \in DOMAIN nodes |-> ChildrenTagged(nodes[i], Head(tags))]),
            Tail(tags))

\* elem.findall(".//{*}t1/{*}t2..."): path is <<t1, t2, ...>>.
findall(elem, path) ==
    StepPath(SelectSeq(Tail(iter(elem)), LAMBDA d : d.tag = Head(path)),
             Tail(path))

\* elem.find(path): the first match, or none (the empty sequence).
find(elem, path) ==
    LET r == findall(elem, path) IN IF r = <<>> THEN <<>> ELSE <<r[1]>>

\* (elem.findtext(path) or ""): the first match's text, "" when there is none.
findtext(elem, path) ==
    LET r == findall(elem, path) IN IF r = <<>> THEN <<>> ELSE r[1].text

RECURSIVE text_of(_)
text_of(elem) ==
    LET parts == <<elem.text>>
                 \o Flatten([i \in DOMAIN elem.kids |->
                                <<text_of(elem.kids[i]), elem.kids[i].tail>>])
        kept  == SelectSeq(parts, LAMBDA p : strip(p) # <<>>)
    IN  join(<<" ">>, [i \in DOMAIN kept |-> strip(kept[i])])

\* A response body: "empty" (""), "malformed" (ET.fromstring raises
\* ParseError) or "xml" (it parses to root).
EmptyBody == [kind |-> "empty"]
MalformedBody == [kind |-> "malformed"]
XmlBody(root) == [kind |-> "xml", root |-> root]

\* ET.fromstring: the root, or none on ParseError.
fromstring(body) == IF body.kind = "xml" THEN <<body.root>> ELSE <<>>

\* -------------------------------------------------------------- classifier

\* Two of the alternatives of MFH_PATTERNS, lower-cased; every alternative
\* is \b<word>\b, matched with re.IGNORECASE.
MFH_PATTERNS == << <<"m", "f", "h">>, <<"w", "o", "h", "n", "b", "a", "u">> >>

lower(c) ==
    CASE c = "A" -> "a" [] c = "B" -> "b" [] c = "F" -> "f" [] c = "H" -> "h"
      [] c = "M" -> "m" [] c = "N" -> "n" [] c = "U" -> "u" [] c = "W" -> "w"
      [] OTHER -> c

IsWordChar(c) == c \notin NonWordChars

MatchAt(hay, i, pat) ==
    /\ i + Len(pat) - 1 <= Len(hay)
    /\ \A k \in 1..Len(pat) : lower(hay[i + k - 1]) = pat[k]
    /\ (i = 1 \/ ~IsWordChar(hay[i - 1]))
    /\ (i + Len(pat) > Len(hay) \/ ~IsWordChar(hay[i + Len(pat)]))

\* MFH_REGEX.search(hay): the leftmost match's text as found, or none.
MFH_REGEX_search(hay) ==
    LET hits == {h \in (DOMAIN hay) \X (DOMAIN MFH_PATTERNS) :
                    MatchAt(hay, h[1], MFH_PATTERNS[h[2]])}
    IN  IF hits = {} THEN <<>>
        ELSE LET i == CHOOSE i \in {h[1] : h \in hits} :
                        \A h \in hits : i <= h[1]
                 p == CHOOSE p \in {h[2] : h \in {g \in hits : g[1] = i}} :
                        \A h \in {g \in hits : g[1] = i} : p <= h[2]
             IN  SubSeq(hay, i, i + Len(MFH_PATTERNS[p]) - 1)

\* A classifier that gives up on a document that does not parse.
is_mfh_like_parsed_only(detail_xml, title) ==
    LET root == fromstring(detail_xml)
        pd == IF root = <<>> THEN <<>>
              ELSE find(root[1], <<"content", "projectDescription">>)
        content == IF root = <<>> THEN <<>> ELSE find(root[1], <<"content">>)
        haystack_parts ==
            <<title>>
            \o (IF pd = <<>> THEN <<>> ELSE <<text_of(pd[1])>>)
            \o (IF content = <<>> THEN <<>> ELSE <<text_of(content[1])>>)
    IN  IF root = <<>> THEN <<>>
        ELSE MFH_REGEX_search(join(<<" ">>, haystack_parts))

is_mfh_like(detail_xml, title) ==
    LET root == fromstring(detail_xml)
        pd == IF root = <<>> THEN <<>>
              ELSE find(root[1], <<"content", "projectDescription">>)
        content == IF root = <<>> THEN <<>> ELSE find(root[1], <<"content">>)
        haystack_parts ==
            <<title>>
            \o (IF pd = <<>> THEN <<>> ELSE <<text_of(pd[1])>>)
            \o (IF content = <<>> THEN <<>> ELSE <<text_of(content[1])>>)
    IN  MFH_REGEX_search(join(<<" ">>, haystack_parts))

\* -------------------------------------------------------------- extractors

\* "Dedupe keep order": the loop over pieces with the seen set.
RECURSIVE dedupe_from(_, _, _)
dedupe_from(pieces, seen, uniq) ==
    IF pieces = <<>> THEN uniq
    ELSE LET p == Head(pieces)
         IN  IF p # <<>> /\ p \notin seen
             THEN dedupe_from(Tail(pieces), seen \cup {p}, Append(uniq, p))
             ELSE dedupe_from(Tail(pieces), seen, uniq)

\* A join of the pieces as collected, repeats included.
dedupe_nothing(pieces) == NonEmpty(pieces)

dedupe_keep_order(pieces) == dedupe_from(pieces, {}, <<>>)

Separator == <<" ", "|", " ">>

join_unique(pieces) == join(Separator, dedupe_keep_order(pieces))

\* " ".join(x for x in [prename, name] if x)
full_name(person) ==
    join(<<" ">>, NonEmpty(<<strip(findtext(person, <<"prename">>)),
                             strip(findtext(person, <<"name">>))>>))

\* The pieces one <person> of the ZH block contributes (none or one).
zh_person_piece(person) ==
    LET full == full_name(person)
        addr == find(person, <<"addressSwitzerland">>)
        addr_txt ==
            IF addr = <<>> THEN <<>>
            ELSE join(<<" ">>, NonEmpty(<<findtext(addr[1], <<"street">>),
                                          findtext(addr[1], <<"houseNumber">>),
                                          findtext(addr[1], <<"swissZipCode">>),
                                          findtext(addr[1], <<"town">>)>>))
    IN  IF full = <<>> THEN <<>>
        ELSE IF addr_txt # <<>>
        THEN <<full \o <<" ", "(">> \o addr_txt \o <<")">>>>
        ELSE <<full>>

\* The pieces one <person> contributes in the ZG extractor (no address).
zg_person_piece(person) ==
    LET full == full_name(person) IN IF full = <<>> THEN <<>> ELSE <<full>>

\* The pieces one <company> contributes (both extractors).
company_piece(company) ==
    LET cname == strip(findtext(company, <<"name">>))
        custom_addr ==
            replace_newlines(strip(findtext(company, <<"customAddress">>)))
    IN  IF cname = <<>> THEN <<>>
        ELSE IF custom_addr # <<>>
        THEN <<cname \o <<" ", "(">> \o custom_addr \o <<")">>>>
        ELSE <<cname>>

\* The persons and companies of the block bc, as the ZH extractor reads them.
zh_pieces(bc) ==
    LET persons == findall(bc, <<"persons", "person">>)
        companies == findall(bc, <<"companies", "company">>)
    IN  Flatten([i \in DOMAIN persons |-> zh_person_piece(persons[i])])
        \o Flatten([i \in DOMAIN companies |-> company_piece(companies[i])])

\* A fallback that takes text_of(bc): the block's own text and the tail
\* text of its children too.
zh_block_text_whole(bc) == normalize_ws(text_of(bc))

\* "Fallback: whole block": " ".join(text_of(el) for el in bc), normalized.
zh_block_text(bc) ==
    normalize_ws(join(<<" ">>, [i \in DOMAIN bc.kids |-> text_of(bc.kids[i])]))

\* What the ZH extractor joins: the structured pieces or, when there are
\* none, the block's text as it is (not deduplicated, possibly empty).
zh_entries(root) ==
    LET bc == find(root, <<"content", "buildingContractor">>)
    IN  IF bc = <<>> THEN <<>>
        ELSE IF zh_pieces(bc[1]) = <<>> THEN <<zh_block_text(bc[1])>>
        ELSE zh_pieces(bc[1])

extract_bauherrschaft_precise_zh(root) ==
    LET bc == find(root, <<"content", "buildingContractor">>)
    IN  IF bc = <<>> THEN <<>>
        ELSE IF zh_pieces(bc[1]) = <<>> THEN zh_block_text(bc[1])
        ELSE join_unique(zh_pieces(bc[1]))

ZG_CONTAINER_PATHS ==
    << <<"buildingContractor">>, <<"bauherrschaft">>, <<"gesuchsteller">>,
       <<"applicant">>, <<"applicants", "applicant">> >>

ZG_PARTY_PATHS == << <<"party">>, <<"person">>, <<"company">> >>

\* One pass of the loop body over a container node, pieces being the list
\* accumulated so far.
zg_node_step(pieces, node) ==
    LET persons == findall(node, <<"persons", "person">>)
        companies == findall(node, <<"companies", "company">>)
        structured ==
            pieces
            \o Flatten([i \in DOMAIN persons |-> zg_person_piece(persons[i])])
            \o Flatten([i \in DOMAIN companies |-> company_piece(companies[i])])
        txt == strip(text_of(node))
    IN  IF structured # <<>> THEN structured
        ELSE IF txt # <<>> THEN <<normalize_ws(txt)>>
        ELSE <<>>

RECURSIVE zg_fold(_, _)
zg_fold(pieces, nodes) ==
    IF nodes = <<>> THEN pieces
    ELSE zg_fold(zg_node_step(pieces, Head(nodes)), Tail(nodes))

\* The raw text of every node of nodes that has some.
node_texts(nodes) ==
    Flatten([i \in DOMAIN nodes |->
                IF strip(text_of(nodes[i])) # <<>>
                THEN <<normalize_ws(strip(text_of(nodes[i])))>>
                ELSE <<>>])

zg_pieces(root) ==
    LET content == find(root, <<"content">>)
    IN  IF content = <<>> THEN <<>>
        ELSE LET containers ==
                    Flatten([i \in DOMAIN ZG_CONTAINER_PATHS |->
                                findall(content[1], ZG_CONTAINER_PATHS[i])])
                 pieces == zg_fold(<<>>, containers)
             IN  IF pieces # <<>> THEN pieces
                 ELSE node_texts(
                        Flatten([i \in DOMAIN ZG_PARTY_PATHS |->
                                    findall(content[1], ZG_PARTY_PATHS[i])]))

extract_bauherrschaft_precise_zg(root) == join_unique(zg_pieces(root))

\* The tags of the model whose lower-cased local name contains "bauherr" or
\* "gesuchstell".
HeuristicTags == {"bauherrschaft", "Bauherr", "gesuchsteller"}

heuristic_pieces(root) ==
    node_texts(SelectSeq(iter(root), LAMBDA n : n.tag \in HeuristicTags))

extract_heuristic(root) == join_unique(heuristic_pieces(root))

\* The canton-specific extractor extract_bauherrschaft tries first: its
\* name, or "none" for a canton that has none.
canton_tier(canton) ==
    IF canton = <<"Z", "H">> THEN "zh"
    ELSE IF canton = <<"Z", "G">> THEN "zg"
    ELSE "none"

canton_specific(root, canton) ==
    IF canton_tier(canton) = "zh" THEN extract_bauherrschaft_precise_zh(root)
    ELSE IF canton_tier(canton) = "zg" THEN extract_bauherrschaft_precise_zg(root)
    ELSE <<>>

extract_bauherrschaft(detail_xml, canton) ==
    LET root == fromstring(detail_xml)
    IN  IF root = <<>> THEN <<>>
        ELSE IF canton_specific(root[1], canton) # <<>>
        THEN canton_specific(root[1], canton)
        ELSE extract_heuristic(root[1])

\* --------------------------------------------------------------- transport

\* The state of one GET under the session's Retry: the retries left, the
\* attempts made, "sending" / "returned" / "raised", and the status of the
\* response handed back (none while sending or when an error was raised).
NewRequest ==
    [total |-> RETRY_TOTAL, attempts |-> 0, state |-> "sending", status |-> <<>>]

\* A response is retried when its status is in the forcelist (GET is an
\* allowed method).
is_retry(status) == status \in status_forcelist

\* A Retry that allows one retry more than total.
send_attempt_one_more(t, outcome) ==
    LET sent == [t EXCEPT !.attempts = @ + 1]
        exhausted == t.total - 1 < -1
    IN  IF outcome = <<>>
        THEN IF exhausted THEN [sent EXCEPT !.state = "raised"]
             ELSE [sent EXCEPT !.total = @ - 1]
        ELSE IF outcome[1] \in status_forcelist
        THEN IF exhausted
             THEN [sent EXCEPT !.state = "returned", !.status = outcome]
             ELSE [sent EXCEPT !.total = @ - 1]
        ELSE [sent EXCEPT !.state = "returned", !.status = outcome]

\* One attempt.  outcome is <<status>> for a response and <<>> for a
\* connection error or timeout.  Every retry takes one from total; a retry
\* that would leave total below zero is not made: the last response is
\* returned (raise_on_status=False), the last error is raised.
send_attempt(t, outcome) ==
    LET sent == [t EXCEPT !.attempts = @ + 1]
        exhausted == t.total - 1 < 0
    IN  IF outcome = <<>>
        THEN IF exhausted THEN [sent EXCEPT !.state = "raised"]
             ELSE [sent EXCEPT !.total = @ - 1]
        ELSE IF is_retry(outcome[1])
        THEN IF exhausted
             THEN [sent EXCEPT !.state = "returned", !.status = outcome]
             ELSE [sent EXCEPT !.total = @ - 1]
        ELSE [sent EXCEPT !.state = "returned", !.status = outcome]

\* What the server answers to the k-th attempt of a request it answers by
\* script: the script's k-th outcome, its last outcome from then on.
ScriptAt(script, k) == script[IF k <= Len(script) THEN k ELSE Len(script)]

RECURSIVE run_get(_, _)
run_get(t, script) ==
    IF t.state # "sending" THEN t
    ELSE run_get(send_attempt(t, ScriptAt(script, t.attempts + 1)), script)

\* session.get(url) against a server that answers by script.
session_get(script) == run_get(NewRequest, script)

\* What a fetch hands its caller: raised (the exception of session.get is
\* not caught) or the text (none for a status other than 200).
fetch_result(r, body) ==
    [raised |-> r.state = "raised",
     text   |-> IF r.state = "returned" /\ r.status = <<200>>
                THEN <<body>> ELSE <<>>]

fetch_list_page(script, body) == fetch_result(session_get(script), body)

fetch_detail_xml(script, body) == fetch_result(session_get(script), body)

\* ------------------------------------------------------------------ listing

\* A listing document: its <publication> entries, each with the ref
\* attribute and the fields of its <meta>.
ListingBody(pubs) == [kind |-> "xml", pubs |-> pubs]

parse_list(xml_text) ==
    IF xml_text.kind # "xml" THEN <<>>
    ELSE Flatten([i \in DOMAIN xml_text.pubs |->
            LET pub == xml_text.pubs[i]
            IN  IF strip(pub.ref) = <<>> THEN <<>>
                ELSE <<[ref |-> strip(pub.ref),
                        publicationNumber |-> strip(pub.publicationNumber),
                        date |-> strip(pub.date),
                        title |-> strip(pub.title),
                        canton |-> strip(pub.canton)]>>])

\* ------------------------------------------------------- the remote server

Publication(contentKids) ==
    El("publication", <<>>, <<El("content", <<>>, contentKids)>>)

Person(prename, name, extra) ==
    El("person", <<>>, <<Leaf("prename", prename), Leaf("name", name)>> \o extra)

Contractor(persons, companies) ==
    El("buildingContractor", <<>>,
       (IF persons = <<>> THEN <<>> ELSE <<El("persons", <<>>, persons)>>)
       \o (IF companies = <<>> THEN <<>> ELSE <<El("companies", <<>>, companies)>>))

Ok200 == <<200>>
ConnectionError == <<>>

\* The publications the listing may hold.  A publication's detail URL is
\* answered by DetailServer.
Pubs ==
    { [ref |-> <<"r", "1">>, publicationNumber |-> <<"1">>, date |-> <<"2">>,
       title |-> <<"M", "F", "H">>, canton |-> <<"Z", "H">>],
      [ref |-> <<"r", "2">>, publicationNumber |-> <<"2">>, date |-> <<"1">>,
       title |-> <<"U", "m", "b", "a", "u">>, canton |-> <<"Z", "G">>],
      [ref |-> <<"r", "3">>, publicationNumber |-> <<"3">>, date |-> <<"1">>,
       title |-> <<"U", "m", "b", "a", "u">>, canton |-> <<"Z", "H">>],
      [ref |-> <<"r", "0">>, publicationNumber |-> <<>>, date |-> <<"3">>,
       title |-> <<"m", "f", "h">>, canton |-> <<" ">>],
      [ref |-> <<"r", "e">>, publicationNumber |-> <<"2">>, date |-> <<"2">>,
       title |-> <<"M", "F", "H">>, canton |-> <<"Z", "H">>],
      [ref |-> <<"r", "n">>, publicationNumber |-> <<"1">>, date |-> <<"1">>,
       title |-> <<"M", "F", "H">>, canton |-> <<"Z", "G">>],
      [ref |-> <<" ">>, publicationNumber |-> <<"3">>, date |-> <<"3">>,
       title |-> <<"M", "F", "H">>, canton |-> <<"Z", "H">>] }

\* How the server answers the GET of a detail URL: the outcome of each
\* attempt, and the body of a 200 response.
DetailServer(ref) ==
    CASE ref = <<"r", "1">> ->
            [script |-> <<<<503>>, Ok200>>,
             body |-> XmlBody(Publication(
                        <<Leaf("projectDescription", <<"U", "m", "b", "a", "u">>),
                          Contractor(<<Person(<<"A">>, <<"B">>, <<>>)>>, <<>>)>>))]
      [] ref = <<"r", "2">> ->
            [script |-> <<Ok200>>,
             body |-> XmlBody(Publication(
                        <<Leaf("projectDescription",
                               <<"N", "e", "u", " ", "W", "o", "h", "n", "b", "a", "u">>),
                          Leaf("gesuchsteller", <<"C">>)>>))]
      [] ref = <<"r", "3">> ->
            [script |-> <<Ok200>>,
             body |-> XmlBody(Publication(
                        <<Leaf("projectDescription", <<"U", "m", "b", "a", "u">>)>>))]
      [] ref = <<"r", "0">> ->
            [script |-> <<Ok200>>, body |-> MalformedBody]
      [] ref = <<"r", "n">> ->
            [script |-> <<<<404>>>>, body |-> EmptyBody]
      [] OTHER ->
            [script |-> <<ConnectionError>>, body |-> EmptyBody]

\* How the server may answer the GET of a listing page.
ListScripts ==
    { <<Ok200>>, <<<<500>>, Ok200>>, <<<<404>>>>, <<<<503>>>>, <<ConnectionError>> }

ListFaults == {"data", "empty", "malformed"}

Min(a, b) == IF a <= b THEN a ELSE b

\* The body of listing page `page` (0-based) of the data set pubs.
ServerPage(pubs, page, fault) ==
    IF fault = "empty" THEN EmptyBody
    ELSE IF fault = "malformed" THEN MalformedBody
    ELSE ListingBody(SubSeq(pubs, page * PAGE_SIZE + 1,
                            Min((page + 1) * PAGE_SIZE, Len(pubs))))

RECURSIVE SeqsUpTo(_, _)
SeqsUpTo(S, n) ==
    IF n = 0 THEN {<<>>}
    ELSE SeqsUpTo(S, n - 1)
         \cup {Append(q, x) : q \in {r \in SeqsUpTo(S, n - 1) : Len(r) = n - 1},
                              x \in S}

\* ----------------------------------------------------------------- sorting

\* The sort key of a row, and a < b for two keys (tuples of str).
row_key(r) == <<r.canton, r.date, r.publicationNumber>>

RECURSIVE KeyLess(_, _)
KeyLess(a, b) ==
    IF a = <<>> \/ b = <<>> THEN FALSE
    ELSE IF Head(a) # Head(b) THEN StrLess(Head(a), Head(b))
    ELSE KeyLess(Tail(a), Tail(b))

\* The order of a sort without reverse=True.
goes_before_ascending(r, x) == KeyLess(row_key(r), row_key(x))

\* Whether row r goes before row x in the sorted list (reverse=True).
goes_before(r, x) == KeyLess(row_key(x), row_key(r))

\* r put into a sorted list behind every row it does not go before: rows
\* of equal keys keep the order in which they came (list.sort is stable).
RECURSIVE insert_sorted(_, _)
insert_sorted(sorted, r) ==
    IF sorted = <<>> THEN <<r>>
    ELSE IF goes_before(r, Head(sorted)) THEN <<r>> \o sorted
    ELSE <<Head(sorted)>> \o insert_sorted(Tail(sorted), r)

RECURSIVE sort_from(_, _)
sort_from(sorted, rows) ==
    IF rows = <<>> THEN sorted
    ELSE sort_from(insert_sorted(sorted, Head(rows)), Tail(rows))

\* results.sort(key=..., reverse=True)
sort_rows(rows) == sort_from(<<>>, rows)

\* ------------------------------------------------------------ the pipeline

VARIABLES
    server,     \* the publications of the remote listing, in listing order
    stage,      \* "Listing", "Fetching", "Done", or "Crashed" (main raised)
    page,       \* main's page
    items,      \* main's items
    requests,   \* the listing requests made so far and what each returned
    futs,       \* per item, its future: "queued", "running", "done", "yielded"
    results,    \* main's results
    outfile     \* the rows written to OUTFILE: none, or <<rows>>

pipeline == <<server, stage, page, items, requests, futs, results, outfile>>

\* One pass of the loop body of main, step by step (the item model).
VARIABLES
    xmeta,      \* the item: meta
    xresp,      \* what the fetch of its detail returned
    xphase,     \* "idle", "fetched", "skipped", "matched", "fallback",
                \* "extracted", "appended"
    xmatch,     \* match_term
    xtiers,     \* the extractors run so far, in order
    xentries,   \* what the last extractor run collected, before the join
    xparty,     \* bauherr
    xrows       \* the rows appended

item == <<xmeta, xresp, xphase, xmatch, xtiers, xentries, xparty, xrows>>

\* One GET of the session, attempt by attempt (the transport model).
VARIABLES
    treq,       \* the request: retries left, attempts made, state, status
    tlog        \* the outcome of each attempt so far

transport == <<treq, tlog>>

\* The pool by numbers of calls (the pool model).
VARIABLES
    pstage,     \* "idle", "Listing", "Fetching", "Done"
    pitems,     \* len(items)
    pqueued,    \* the calls submitted and not started
    prunning,   \* the calls a worker is running
    pdone,      \* the calls done and not yet yielded by as_completed
    pyielded    \* the calls main has handled

pool == <<pstage, pitems, pqueued, prunning, pdone, pyielded>>

vars == <<pipeline, item, transport, pool>>

ItemIdle ==
    /\ xmeta = <<>> /\ xresp = <<>> /\ xphase = "idle" /\ xmatch = <<>>
    /\ xtiers = <<>> /\ xentries = <<>> /\ xparty = <<>> /\ xrows = <<>>

TransportIdle == treq = <<>> /\ tlog = <<>>

PoolIdle ==
    /\ pstage = "idle" /\ pitems = 0 /\ pqueued = 0 /\ prunning = 0
    /\ pdone = 0 /\ pyielded = 0

PipelineIdle ==
    /\ server = <<>> /\ stage = "idle" /\ page = 0 /\ items = <<>>
    /\ requests = <<>> /\ futs = <<>> /\ results = <<>> /\ outfile = <<>>

\* `if not detail`: the fetch returned None or an empty text.
no_detail(resp) == resp.text = <<>> \/ resp.text[1].kind = "empty"

\* (meta.get("canton") or "").strip() or "ZH"
canton_of(meta) ==
    IF strip(meta.canton) # <<>> THEN strip(meta.canton) ELSE <<"Z", "H">>

\* A loop body without `if not match_term: continue`.
is_match_always(match_term) == TRUE

\* Whether the loop body goes on after the classifier (`if not match_term:
\* continue`).
is_match(match_term) == match_term # <<>>

\* The row the loop body builds for meta and its detail text.
output_row(meta, detail) ==
    [canton |-> canton_of(meta),
     publicationNumber |-> meta.publicationNumber,
     date |-> meta.date,
     title |-> meta.title,
     bauherrschaft |-> extract_bauherrschaft(detail, canton_of(meta)),
     match_term |-> is_mfh_like(detail, meta.title),
     ref |-> meta.ref]

\* The rows one pass of the loop body appends for meta, given what the
\* fetch of its detail returned: none or one.
rows_for(meta, resp) ==
    IF no_detail(resp) THEN <<>>
    ELSE IF ~is_match(is_mfh_like(resp.text[1], meta.title)) THEN <<>>
    ELSE <<output_row(meta, resp.text[1])>>

\* A pool that starts every call at once.
worker_always_available(running) == TRUE

\* The pool starts a queued call only on a free worker.
worker_available(running) == running < MAX_WORKERS

\* A listing loop that does not break after a short page.
last_page_never(n) == FALSE

\* `if len(batch) < PAGE_SIZE: break`, n being len(batch).
last_page(n) == n < PAGE_SIZE

Running == {i \in DOMAIN futs : futs[i] = "running"}

detail_fetch(meta) ==
    fetch_detail_xml(DetailServer(meta.ref).script, DetailServer(meta.ref).body)

\* The data sets of the listing: a reference names one publication.
DataSets ==
    {q \in SeqsUpTo(Pubs, MaxPubs) :
        \A i, j \in DOMAIN q : i # j => q[i].ref # q[j].ref}

Init ==
    /\ server \in DataSets
    /\ stage = "Listing"
    /\ page = 0
    /\ items = <<>>
    /\ requests = <<>>
    /\ futs = <<>>
    /\ results = <<>>
    /\ outfile = <<>>
    /\ ItemIdle /\ TransportIdle /\ PoolIdle

\* One pass of the listing loop; when it breaks, main goes on to submit
\* every item to the pool.  An exception of the request ends main.
ListPage ==
    /\ stage = "Listing"
    /\ \E script \in ListScripts, fault \in ListFaults :
        LET resp == fetch_list_page(script, ServerPage(server, page, fault))
            batch == IF no_detail(resp) THEN <<>> ELSE parse_list(resp.text[1])
            stop == no_detail(resp) \/ batch = <<>> \/ last_page(Len(batch))
        IN  /\ requests' = Append(requests,
                                  [page |-> page, raised |-> resp.raised,
                                   text |-> resp.text])
            /\ items' = IF resp.raised THEN items ELSE items \o batch
            /\ page' = IF resp.raised \/ stop THEN page ELSE page + 1
            /\ stage' = IF resp.raised THEN "Crashed"
                        ELSE IF stop THEN "Fetching" ELSE "Listing"
            /\ futs' = IF ~resp.raised /\ stop
                       THEN [i \in 1..Len(items') |-> "queued"]
                       ELSE futs
    /\ UNCHANGED <<server, results, outfile>>
    /\ UNCHANGED <<item, transport, pool>>

\* A worker of the pool takes the next queued call.  The pool goes on after
\* main raised: leaving the with block waits for every submitted call.
StartFetch(i) ==
    /\ stage \in {"Fetching", "Crashed"}
    /\ i \in DOMAIN futs
    /\ futs[i] = "queued"
    /\ \A j \in 1..(i - 1) : futs[j] # "queued"
    /\ worker_available(Cardinality(Running))
    /\ futs' = [futs EXCEPT ![i] = "running"]
    /\ UNCHANGED <<server, stage, page, items, requests, results, outfile>>
    /\ UNCHANGED <<item, transport, pool>>

\* A worker's fetch_detail_xml returns or raises: its future is done.
FinishFetch(i) ==
    /\ stage \in {"Fetching", "Crashed"}
    /\ i \in DOMAIN futs
    /\ futs[i] = "running"
    /\ futs' = [futs EXCEPT ![i] = "done"]
    /\ UNCHANGED <<server, stage, page, items, requests, results, outfile>>
    /\ UNCHANGED <<item, transport, pool>>

\* as_completed yields a done future and main runs the loop body on it:
\* fut.result() raises what the call raised, which ends main.
Collect(i) ==
    /\ stage = "Fetching"
    /\ i \in DOMAIN futs
    /\ futs[i] = "done"
    /\ futs' = [futs EXCEPT ![i] = "yielded"]
    /\ stage' = IF detail_fetch(items[i]).raised THEN "Crashed" ELSE stage
    /\ results' = IF detail_fetch(items[i]).raised THEN results
                  ELSE results \o rows_for(items[i], detail_fetch(items[i]))
    /\ UNCHANGED <<server, page, items, requests, outfile>>
    /\ UNCHANGED <<item, transport, pool>>

\* Every future was yielded: main leaves the with block, sorts results and
\* writes the rows.
WriteCsv ==
    /\ stage = "Fetching"
    /\ \A i \in DOMAIN futs : futs[i] = "yielded"
    /\ results' = sort_rows(results)
    /\ outfile' = <<sort_rows(results)>>
    /\ stage' = "Done"
    /\ UNCHANGED <<server, page, items, requests, futs>>
    /\ UNCHANGED <<item, transport, pool>>

Next ==
    \/ ListPage
    \/ \E i \in 1..MaxPubs : StartFetch(i)
    \/ \E i \in 1..MaxPubs : FinishFetch(i)
    \/ \E i \in 1..MaxPubs : Collect(i)
    \/ WriteCsv

Spec == Init /\ [][Next]_vars

\* ---------------------------------------------------------- the item model

Address ==
    El("addressSwitzerland", <<>>,
       <<Leaf("street", <<"a">>), Leaf("houseNumber", <<"1">>),
         Leaf("swissZipCode", <<>>), Leaf("town", <<"b">>)>>)

\* The <person> elements of generated blocks: with an address, with a name
\* only, with blank names.
PersonEls ==
    { Person(<<"A">>, <<"B">>, <<Address>>),
      Person(<<>>, <<" ", "B">>, <<>>),
      Person(<<" ">>, <<>>, <<>>) }

\* The <company> elements: with a two-line address, without a name.
CompanyEls ==
    { El("company", <<>>, <<Leaf("name", <<"N">>),
                            Leaf("customAddress", <<"a", "\n", "b">>)>>),
      El("company", <<>>, <<Leaf("name", <<>>),
                            Leaf("customAddress", <<"a">>)>>) }

\* The <buildingContractor> blocks of generated documents (none, or one):
\* structured ones (among them the empty block), one with text of its own
\* only, one with an unstructured child followed by tail text.
ContractorBlocks ==
    {<<>>}
    \cup {<<Contractor(ps, cs)>> :
            ps \in SeqsUpTo(PersonEls, MaxPersons), cs \in SeqsUpTo(CompanyEls, 1)}
    \cup {<<El("buildingContractor", <<"H">>, <<>>)>>,
          <<El("buildingContractor", <<>>,
               <<WithTail(Leaf("legalEntity", <<" ", "F", " ", " ", "G">>),
                          <<"h">>)>>)>>}

\* Other children of <content>: containers and party nodes of the ZG
\* extractor.
ContentExtras ==
    { <<>>,
      <<El("applicants", <<>>,
           <<El("applicant", <<>>,
                <<El("persons", <<>>, <<Person(<<>>, <<"B">>, <<>>)>>)>>)>>)>>,
      <<Leaf("gesuchsteller", <<"C">>)>>,
      <<Leaf("party", <<"C", " ", " ", "C">>), Leaf("party", <<"C", " ", "C">>)>> }

\* Children of the root beside <content>: nodes the tag heuristic takes.
RootExtras ==
    { <<>>,
      <<Leaf("Bauherr", <<"C">>)>>,
      <<Leaf("Bauherr", <<"C">>), Leaf("bauherrschaft", <<"B">>),
        Leaf("Bauherr", <<"C">>)>> }

Descriptions ==
    { <<>>,
      <<Leaf("projectDescription",
             <<"N", "e", "u", " ", "W", "o", "h", "n", "b", "a", "u">>)>> }

DetailDocuments ==
    { El("publication", <<>>,
         <<El("content", <<>>, pd \o bc \o ce)>> \o re) :
        pd \in Descriptions, bc \in ContractorBlocks,
        ce \in ContentExtras, re \in RootExtras }

\* What the fetch of a detail may hand the loop body.
DetailResponses ==
    { [raised |-> FALSE, text |-> <<>>],
      [raised |-> FALSE, text |-> <<EmptyBody>>],
      [raised |-> FALSE, text |-> <<MalformedBody>>] }
    \cup { [raised |-> FALSE, text |-> <<XmlBody(d)>>] : d \in DetailDocuments }

ItemMetas ==
    { [ref |-> <<"r", "1">>, publicationNumber |-> <<"1">>, date |-> <<"1">>,
       title |-> t, canton |-> c] :
        t \in { <<"M", "F", "H">>, <<"U", "m", "b", "a", "u">> },
        c \in { <<"Z", "H">>, <<"Z", "G">>, <<"A", "G">> } }

ItemInit ==
    /\ xmeta \in ItemMetas
    /\ xresp \in DetailResponses
    /\ xphase = "fetched"
    /\ xmatch = <<>>
    /\ xtiers = <<>>
    /\ xentries = <<>>
    /\ xparty = <<>>
    /\ xrows = <<>>
    /\ PipelineIdle /\ TransportIdle /\ PoolIdle

\* What the canton-specific extractor collects before the join.
canton_entries(root, canton) ==
    IF canton_tier(canton) = "zh" THEN zh_entries(root)
    ELSE IF canton_tier(canton) = "zg" THEN zg_pieces(root)
    ELSE <<>>

\* `if not detail: continue`, then the classifier and `if not match_term:
\* continue`.
Classify ==
    /\ xphase = "fetched"
    /\ xmatch' = IF no_detail(xresp) THEN <<>>
                 ELSE is_mfh_like(xresp.text[1], xmeta.title)
    /\ xphase' = IF no_detail(xresp) THEN "skipped"
                 ELSE IF is_match(is_mfh_like(xresp.text[1], xmeta.title))
                 THEN "matched" ELSE "skipped"
    /\ UNCHANGED <<xmeta, xresp, xtiers, xentries, xparty, xrows>>
    /\ UNCHANGED <<pipeline, transport, pool>>

\* extract_bauherrschaft up to the heuristic: the parse and the extractor
\* of the canton, which decides when it returns something.
CantonExtract ==
    /\ xphase = "matched"
    /\ LET root == fromstring(xresp.text[1])
           tier == canton_tier(canton_of(xmeta))
           val == IF root = <<>> THEN <<>>
                  ELSE canton_specific(root[1], canton_of(xmeta))
       IN  /\ xtiers' = IF root = <<>> \/ tier = "none" THEN xtiers
                        ELSE Append(xtiers, tier)
           /\ xentries' = IF root = <<>> THEN <<>>
                          ELSE canton_entries(root[1], canton_of(xmeta))
           /\ xparty' = val
           /\ xphase' = IF root = <<>> \/ val # <<>> THEN "extracted"
                        ELSE "fallback"
    /\ UNCHANGED <<xmeta, xresp, xmatch, xrows>>
    /\ UNCHANGED <<pipeline, transport, pool>>

\* The heuristic fallback of extract_bauherrschaft.
HeuristicExtract ==
    /\ xphase = "fallback"
    /\ xtiers' = Append(xtiers, "heuristic")
    /\ xentries' = heuristic_pieces(fromstring(xresp.text[1])[1])
    /\ xparty' = extract_heuristic(fromstring(xresp.text[1])[1])
    /\ xphase' = "extracted"
    /\ UNCHANGED <<xmeta, xresp, xmatch, xrows>>
    /\ UNCHANGED <<pipeline, transport, pool>>

\* results.append({...})
AppendRow ==
    /\ xphase = "extracted"
    /\ xrows' = Append(xrows,
                       [canton |-> canton_of(xmeta),
                        publicationNumber |-> xmeta.publicationNumber,
                        date |-> xmeta.date,
                        title |-> xmeta.title,
                        bauherrschaft |-> xparty,
                        match_term |-> xmatch,
                        ref |-> xmeta.ref])
    /\ xphase' = "appended"
    /\ UNCHANGED <<xmeta, xresp, xmatch, xtiers, xentries, xparty>>
    /\ UNCHANGED <<pipeline, transport, pool>>

ItemNext == Classify \/ CantonExtract \/ HeuristicExtract \/ AppendRow

SpecItem == ItemInit /\ [][ItemNext]_vars

\* The steps of the item model append what rows_for gives the pipeline.
ItemAgreesWithPipeline ==
    xphase \in {"skipped", "appended"} => xrows = rows_for(xmeta, xresp)

\* ----------------------------------------------------- the transport model

\* What one attempt may meet: a response with a status, or a connection
\* error or timeout.
AttemptOutcomes == {Ok200, <<204>>, <<404>>, <<429>>, <<503>>, ConnectionError}

TransportInit ==
    /\ treq = NewRequest
    /\ tlog = <<>>
    /\ PipelineIdle /\ ItemIdle /\ PoolIdle

\* The session sends the request once more and meets outcome.
Attempt ==
    /\ treq.state = "sending"
    /\ \E outcome \in AttemptOutcomes :
        /\ treq' = send_attempt(treq, outcome)
        /\ tlog' = Append(tlog, outcome)
    /\ UNCHANGED <<pipeline, item, pool>>

SpecTransport == TransportInit /\ [][Attempt]_vars

\* The model's session_get is the attempts of the transport model.
TransportAgreesWithGet == treq.state # "sending" => session_get(tlog) = treq

\* ---------------------------------------------------------- the pool model

PoolInit ==
    /\ pstage = "Listing"
    /\ pitems = 0
    /\ pqueued = 0
    /\ prunning = 0
    /\ pdone = 0
    /\ pyielded = 0
    /\ PipelineIdle /\ ItemIdle /\ TransportIdle

\* One pass of the listing loop that adds n descriptors (none for a failed
\* or empty page); when it breaks, main submits every item.
PoolListPage ==
    /\ pstage = "Listing"
    /\ \E n \in 0..PAGE_SIZE :
        /\ pitems + n <= MaxDescriptors
        /\ pitems' = pitems + n
        /\ pstage' = IF n = 0 \/ last_page(n) THEN "Fetching" ELSE "Listing"
        /\ pqueued' = IF n = 0 \/ last_page(n) THEN pitems + n ELSE pqueued
    /\ UNCHANGED <<prunning, pdone, pyielded>>
    /\ UNCHANGED <<pipeline, item, transport>>

PoolStart ==
    /\ pstage \in {"Fetching", "Crashed"}
    /\ pqueued > 0
    /\ worker_available(prunning)
    /\ pqueued' = pqueued - 1
    /\ prunning' = prunning + 1
    /\ UNCHANGED <<pstage, pitems, pdone, pyielded>>
    /\ UNCHANGED <<pipeline, item, transport>>

PoolFinish ==
    /\ pstage \in {"Fetching", "Crashed"}
    /\ prunning > 0
    /\ prunning' = prunning - 1
    /\ pdone' = pdone + 1
    /\ UNCHANGED <<pstage, pitems, pqueued, pyielded>>
    /\ UNCHANGED <<pipeline, item, transport>>

\* as_completed yields a done future; its call raised or returned.
PoolCollect ==
    /\ pstage = "Fetching"
    /\ pdone > 0
    /\ pdone' = pdone - 1
    /\ pyielded' = pyielded + 1
    /\ \E raised \in BOOLEAN : pstage' = IF raised THEN "Crashed" ELSE pstage
    /\ UNCHANGED <<pitems, pqueued, prunning>>
    /\ UNCHANGED <<pipeline, item, transport>>

PoolWriteCsv ==
    /\ pstage = "Fetching"
    /\ pyielded = pitems
    /\ pstage' = "Done"
    /\ UNCHANGED <<pitems, pqueued, prunning, pdone, pyielded>>
    /\ UNCHANGED <<pipeline, item, transport>>

PoolNext ==
    PoolListPage \/ PoolStart \/ PoolFinish \/ PoolCollect \/ PoolWriteCsv

SpecPool == PoolInit /\ [][PoolNext]_vars

\* ------------------------------------------------------------------ claims

Range(q) == {q[i] : i \in DOMAIN q}

Last(q) == q[Len(q)]

\* The descriptors a listing request added to items.
BatchOf(request) ==
    IF request.raised \/ request.text = <<>> THEN <<>>
    ELSE parse_list(request.text[1])

\* A listing request after which the loop must not go on: it failed, or
\* its page parsed to fewer than PAGE_SIZE descriptors (to none, too).
EndsListing(request) == Len(BatchOf(request)) < PAGE_SIZE

\* The fetch of item i handed main a document, and the classifier matched.
Recorded(i) ==
    LET d == DetailServer(items[i].ref)
        r == session_get(d.script)
    IN  /\ r.state = "returned" /\ r.status = Ok200
        /\ d.body.kind # "empty"
        /\ is_mfh_like(d.body, items[i].title) # <<>>

\* The fetch of item i failed: a status other than 200, or an exception.
FetchFailed(i) ==
    LET r == session_get(DetailServer(items[i].ref).script)
    IN  r.state = "raised" \/ r.status # Ok200

Yielded == {i \in DOMAIN futs : futs[i] = "yielded"}

ListingRaised == requests # <<>> /\ Last(requests).raised

\* C1: in the Fetching stage a descriptor whose fetch fails (a non-200
\* status, or an error raised by the request after the retries) is skipped
\* and every other descriptor is still fetched, classified and recorded on
\* match; the stage ends only when every submitted descriptor is resolved,
\* never on the first error.
C1_FetchFailuresIsolated ==
    (stage \in {"Done", "Crashed"} /\ ~ListingRaised) =>
        /\ \A i \in DOMAIN futs : futs[i] = "yielded"
        /\ \A i \in DOMAIN futs :
              Recorded(i) => \E k \in DOMAIN results : results[k].ref = items[i].ref

\* C2: the listing loop requests pages 0, 1, 2, ... one after another; after
\* the first page that fails, parses to no descriptor or parses to fewer
\* than PAGE_SIZE descriptors no further page is requested; the items handed
\* on are the descriptors of the requested pages in page order.  A data set
\* smaller than a page costs one request; a full page followed by a page of
\* one descriptor gives PAGE_SIZE + 1 items and two requests.
C2_ListingStopsAtShortPage ==
    LET n == Len(requests)
    IN  /\ \A k \in 1..n : requests[k].page = k - 1
        /\ \A k \in 1..(n - 1) : ~EndsListing(requests[k])
        /\ items = Flatten([k \in 1..n |-> BatchOf(requests[k])])
        /\ stage = "Listing" => page = n
        /\ stage \notin {"Listing", "idle"} => n >= 1 /\ EndsListing(requests[n])
        /\ stage \in {"Fetching", "Done"} => Len(futs) = Len(items)
        /\ (stage \notin {"Listing", "idle"} /\ Len(server) < PAGE_SIZE) => n = 1
        /\ (n >= 2 /\ Len(BatchOf(requests[1])) = PAGE_SIZE
                   /\ Len(BatchOf(requests[2])) = 1) =>
              n = 2 /\ Len(items) = PAGE_SIZE + 1

\* The scenario of C2: a full page, then a page of one descriptor, and
\* main has gone on to the fetches.
C2_Witness ==
    /\ stage = "Fetching"
    /\ Len(requests) = 2
    /\ Len(BatchOf(requests[1])) = PAGE_SIZE
    /\ Len(BatchOf(requests[2])) = 1
    /\ Len(items) = PAGE_SIZE + 1

\* C3: a listing page request that fails in any way (a non-200 final
\* status, a timeout or a transport error raised after the retries) ends
\* the listing loop without ending the run: the descriptors of the pages
\* before it are kept and the run goes on to the fetches.
C3_ListingFailureContained ==
    (requests # <<>> /\ (Last(requests).raised \/ Last(requests).text = <<>>)) =>
        /\ stage # "Listing"
        /\ stage = "Crashed" => \E i \in Yielded : FetchFailed(i)
        /\ items = Flatten([k \in 1..(Len(requests) - 1) |-> BatchOf(requests[k])])

\* C4: results holds exactly one row for each item that main has handled,
\* whose fetch returned a document and whose classification matched, and no
\* row for another item; every row carries a match term.  When every future
\* was yielded this is one row per submitted descriptor that matched.
C4_OneRowPerMatch ==
    /\ \A k \in DOMAIN results : results[k].match_term # <<>>
    /\ \A i \in DOMAIN futs :
          Cardinality({k \in DOMAIN results : results[k].ref = items[i].ref})
            = IF i \in Yielded /\ Recorded(i) THEN 1 ELSE 0
    /\ \A k \in DOMAIN results : \E i \in Yielded : results[k].ref = items[i].ref
    /\ outfile # <<>> => Len(outfile[1]) = Len(results)

\* Fetching has completed with three descriptors, of which some matched
\* and some did not.
C4_Witness ==
    /\ stage = "Done"
    /\ Len(items) = 3
    /\ Len(results) = 2

Malformed == xresp.text = <<MalformedBody>>

\* C5, as claimed: for an unparsable detail document and any title the
\* classifier returns no match, so no row is produced for a descriptor whose
\* detail document is malformed.
C5_MalformedNeverMatches ==
    Malformed => xmatch = <<>> /\ xrows = <<>> /\ xphase \in {"fetched", "skipped"}

\* C5, amended: for an unparsable detail document the classifier returns
\* what the search finds in the title alone (no match when the title holds
\* no keyword); a descriptor whose detail document is malformed gets a row
\* exactly when its title matches, and the row's bauherrschaft is empty.
C5_MalformedMatchesOnTitleOnly ==
    /\ \A b \in {EmptyBody, MalformedBody} :
          is_mfh_like(b, xmeta.title) = MFH_REGEX_search(xmeta.title)
    /\ (Malformed /\ xphase # "fetched") =>
          /\ xmatch = MFH_REGEX_search(xmeta.title)
          /\ xphase = "skipped" <=> MFH_REGEX_search(xmeta.title) = <<>>
          /\ xphase # "fallback"
          /\ xparty = <<>>
          /\ xphase = "appended" =>
                /\ Len(xrows) = 1
                /\ xrows[1].bauherrschaft = <<>>
                /\ xrows[1].match_term = MFH_REGEX_search(xmeta.title)

\* A row was appended for a descriptor whose detail document is malformed.
C5_Witness == Malformed /\ xphase = "appended"

\* No row of rows goes before a row that comes earlier: the keys do not
\* increase.
SortedDescending(rows) ==
    \A a, b \in DOMAIN rows :
        a < b => ~KeyLess(row_key(rows[a]), row_key(rows[b]))

SameRows(p, q) ==
    /\ Len(p) = Len(q)
    /\ \A r \in Range(p) \cup Range(q) :
          Cardinality({i \in DOMAIN p : p[i] = r})
            = Cardinality({i \in DOMAIN q : q[i] = r})

\* C6: the rows handed to the writer are ordered by (canton, date,
\* publicationNumber), descending; they are sorted and written once, after
\* the last future was yielded and the last row appended; nothing is
\* written before and nothing is appended (or written) after.
C6_SortedOnceAfterJoin ==
    [][ /\ outfile' # outfile =>
              /\ stage = "Fetching" /\ stage' = "Done"
              /\ \A i \in DOMAIN futs : futs[i] = "yielded"
              /\ outfile = <<>>
              /\ Len(outfile') = 1
              /\ SortedDescending(outfile'[1])
              /\ SameRows(outfile'[1], results)
              /\ results' = outfile'[1]
        /\ (results' # results /\ outfile' = outfile) =>
              /\ outfile = <<>>
              /\ \E i \in DOMAIN futs : futs[i] = "done" /\ futs'[i] = "yielded"
        /\ outfile # <<>> => results' = results /\ outfile' = outfile
      ]_vars

\* Three rows of three different keys were sorted and written.
C6_Witness ==
    /\ stage = "Done"
    /\ Len(outfile[1]) = 3
    /\ Cardinality({row_key(outfile[1][k]) : k \in 1..3}) = 3

\* The item's document and canton, once it has a document that parses.
ItemParsed == xresp.text # <<>> /\ xresp.text[1].kind = "xml"
ItemRoot == xresp.text[1].root
ItemCanton == canton_of(xmeta)

ZhBlock == find(ItemRoot, <<"content", "buildingContractor">>)

\* The block has no <person> and no <company> below it.
Unstructured(bc) ==
    /\ findall(bc, <<"person">>) = <<>>
    /\ findall(bc, <<"company">>) = <<>>

\* The text of the block's child elements, joined and normalized: without
\* the block's own text and without the tail text of its children.
ChildText(bc) ==
    normalize_ws(join(<<" ">>, [i \in DOMAIN bc.kids |-> text_of(bc.kids[i])]))

\* extractParty returns the output of the first extractor that returns
\* something, and the heuristic runs only when the canton's own returned
\* nothing.
FirstTierWins ==
    LET own == canton_specific(ItemRoot, ItemCanton)
    IN  /\ xparty = IF own # <<>> THEN own ELSE extract_heuristic(ItemRoot)
        /\ ("heuristic" \in Range(xtiers)) <=> (own = <<>>)
        /\ canton_tier(ItemCanton) # "none" => xtiers[1] = canton_tier(ItemCanton)
        /\ Len(xtiers) <= 2

RECURSIVE SplitBySeparator(_)
SplitBySeparator(s) ==
    LET n == Len(Separator)
        at == {i \in 1..(Len(s) - n + 1) : SubSeq(s, i, i + n - 1) = Separator}
    IN  IF at = {} THEN <<s>>
        ELSE LET i == CHOOSE i \in at : \A j \in at : i <= j
             IN  <<SubSeq(s, 1, i - 1)>> \o SplitBySeparator(SubSeq(s, i + n, Len(s)))

FirstIndex(q, x) == CHOOSE i \in DOMAIN q : q[i] = x /\ \A j \in 1..(i - 1) : q[j] # x

\* C9: whatever extractor decided, the party field holds each distinct
\* piece it collected exactly once, in the order of first appearance,
\* joined by " | "; pieces are the same only when equal as strings.
C9_DistinctPiecesInOrder ==
    (xphase \in {"fallback", "extracted", "appended"}) =>
        LET pieces == NonEmpty(xentries)
            shown == SplitBySeparator(xparty)
        IN  IF pieces = <<>> THEN xparty = <<>>
            ELSE /\ Range(shown) = Range(pieces)
                 /\ Len(shown) = Cardinality(Range(pieces))
                 /\ \A a, b \in DOMAIN shown :
                       a < b => FirstIndex(pieces, shown[a]) < FirstIndex(pieces, shown[b])
                 /\ xparty = join(<<" ", "|", " ">>, shown)

\* An extractor collected the same piece twice among three or more, of
\* which two differ.
C9_Witness ==
    /\ xphase = "extracted"
    /\ Len(xentries) >= 3
    /\ Cardinality(Range(xentries)) = 2
    /\ xentries[1] = xentries[3]
    /\ Len(SplitBySeparator(xparty)) = 2

\* C8: one GET makes at most 6 attempts, goes on to another attempt after a
\* response only when its status is 429, 500, 502, 503 or 504, and ends: at
\* the cap the last response is handed back and the caller sees a failed
\* page or item (None).  A status outside the set ends the GET at once; when
\* it is not 200 the caller sees None.
C8_RetriesCapped ==
    LET n == Len(tlog)
    IN  /\ treq.attempts = n
        /\ n <= 6
        /\ \A k \in 1..(n - 1) :
              tlog[k] # <<>> => tlog[k][1] \in {429, 500, 502, 503, 504}
        /\ n = 6 => treq.state # "sending"
        /\ (n = 6 /\ tlog[n] # <<>> /\ tlog[n][1] \in {429, 500, 502, 503, 504}) =>
              /\ treq.state = "returned"
              /\ fetch_list_page(tlog, EmptyBody) = [raised |-> FALSE, text |-> <<>>]
        /\ (n >= 1 /\ tlog[n] # <<>> /\ tlog[n][1] \notin {429, 500, 502, 503, 504}) =>
              /\ treq.state = "returned"
              /\ treq.status = tlog[n]
              /\ tlog[n][1] # 200 =>
                    fetch_detail_xml(tlog, EmptyBody) = [raised |-> FALSE, text |-> <<>>]
        /\ (n >= 1 /\ tlog[1] # <<>> /\ tlog[1][1] \notin {429, 500, 502, 503, 504}) =>
              n = 1

\* Six attempts, each answered 503: the GET ended with the last response.
C8_Witness ==
    /\ Len(tlog) = 6
    /\ \A k \in 1..6 : tlog[k] = <<503>>
    /\ treq.state = "returned"
    /\ treq.status = <<503>>

\* C10: the detail fetches in flight never exceed MAX_WORKERS = 16, however
\* many descriptors were submitted, and none starts before the listing loop
\* has ended.
C10_BoundedPool ==
    /\ prunning <= 16
    /\ pstage = "Listing" =>
          pqueued = 0 /\ prunning = 0 /\ pdone = 0 /\ pyielded = 0
    /\ pstage \notin {"Listing", "idle"} =>
          pqueued + prunning + pdone + pyielded = pitems

\* Every worker is busy and descriptors are still queued.
C10_Witness == prunning = 16 /\ pqueued > 0

====
